---- MODULE Spec2Model ----
(***************************************************************************)
(* Model of jsh's alias table and alias substitution (src/alias.c).        *)
(*                                                                         *)
(* Strings are sequences of one-character strings.  The buffer that        *)
(* resolvealiases() works on is modelled as memory: a sequence of bytes    *)
(* that holds the terminating NUL bytes (and the stale bytes a left shift  *)
(* leaves behind), addressed by 0-based offsets as in the C code.          *)
(* A write past the maxsize bytes that were allocated lands in the memory   *)
(* that follows and is read back as written; rs.oob records that it        *)
(* happened.                                                               *)
(* The alias table is the singly linked list of the source: head, tail and *)
(* one record per allocated struct alias, linked by next.  A call of       *)
(* alias() or resolvealiases() runs as a sequence of steps (pc, call, rs)  *)
(* that no other operation interleaves with (pc is "crashed" once a store  *)
(* through a null pointer has killed the process); last records the        *)
(* operation that ended last, and since whether the table changed after   *)
(* the last get_all_alias_keys call.                                       *)
(***************************************************************************)
EXTENDS Integers, Sequences, FiniteSets, TLC

VARIABLES head, tail, nodes, total_alias_val_length, nb_aliases,
          alias_key_changed, pc, call, rs, last, since, ndefs

vars == <<head, tail, nodes, total_alias_val_length, nb_aliases,
          alias_key_changed, pc, call, rs, last, since, ndefs>>

table == <<head, tail, nodes, total_alias_val_length, nb_aliases>>

(***************************************************************************)
(* Program constants and bounds                                            *)
(***************************************************************************)
MAX_ALIAS_VAL_LENGTH == 200
MAX_ALIAS_KEY_LENGTH == 50

\* the largest number of struct alias records alive at once
MaxAliases == 2

\* the largest number of alias() calls in one run
MaxDefines == 2

NULL == 0
NUL == "NUL"
BS == "\\"
UNINIT == "?"
NOTFOUND == -1
EXIT_SUCCESS == "EXIT_SUCCESS"
EXIT_FAILURE == "EXIT_FAILURE"
SIGSEGV == "SIGSEGV"

\* the allocations of alias() that may return NULL
MallocSites == { "new", "new->key" }

NodeIds == 1..MaxAliases

Min(a, b) == IF a <= b THEN a ELSE b
Max(a, b) == IF a >= b THEN a ELSE b
SetMin(S) == CHOOSE x \in S : \A y \in S : x <= y
Rep(c, n) == [i \in 1..n |-> c]
Take(str, n) == SubSeq(str, 1, Min(Len(str), n))

(***************************************************************************)
(* The inputs the operations are tried on                                  *)
(***************************************************************************)
k_ls == <<"l", "s">>
k_l == <<"l">>
k_a == <<"a">>
k_c == <<"c">>
k_tilde == <<"~">>
k_long == Rep("k", 60)
v_ls == <<"l", "s", " ", "-", "-", "c", "o", "l", "o", "r">>
v_x == <<"x">>
v_a == <<"a">>
v_b == <<"b">>
v_home == <<"/", "h">>
v_long == Rep("y", 250)
v_empty == <<>>

DefArgs == { <<k_ls, v_ls>>, <<k_l, v_x>>, <<k_a, v_b>>, <<k_c, v_a>>,
             <<k_tilde, v_home>>, <<k_long, v_b>>, <<k_a, v_long>>,
             <<k_ls, v_x>>, <<k_a, v_empty>> }

UnaliasArgs == { k_ls, k_a, k_c, k_long, Take(k_long, MAX_ALIAS_KEY_LENGTH) }

ExistsArgs == { k_ls, k_long }

ResolveArgs == { <<"l", "s">>, <<BS, "l", "s">>, <<"a">>, <<"~">>,
                 <<BS, "l", "s", "l", "s">>, <<"l", "s", ";", "l", "s">> }

\* what a read past the end of an unterminated key may find before a NUL byte
Garbage == { <<>>, <<"#">> }

\* how the external predicate is_valid_cmd answers during one call
Oracles == { "never", "always", "any" }

(***************************************************************************)
(* C string functions on memory                                            *)
(***************************************************************************)
\* offset of the first NUL byte at or after offset off
NulAt(mem, off) ==
    SetMin({i \in (off + 1)..Len(mem) : mem[i] = NUL} \cup {Len(mem) + 1}) - 1

strlen(mem, off) == NulAt(mem, off) - off

\* the C string that starts at offset off
CStr(mem, off) == SubSeq(mem, off + 1, NulAt(mem, off))

strnlen(str, n) == Min(Len(str), n)

strcmp(a, b) == IF a = b THEN 0 ELSE 1

strncmp(a, b, n) == IF Take(a, n) = Take(b, n) THEN 0 ELSE 1

\* offset of the first occurrence of key in the C string at off, or NOTFOUND
strstr(mem, off, key) ==
    LET end == NulAt(mem, off)
        hits == {p \in off..(end - Len(key)) :
                    SubSeq(mem, p + 1, p + Len(key)) = key}
    IN  IF hits = {} THEN NOTFOUND ELSE SetMin(hits)

\* memory after writing bytes at offset off
Write(mem, off, bytes) ==
    [i \in 1..Max(Len(mem), off + Len(bytes)) |->
        IF i > off /\ i <= off + Len(bytes) THEN bytes[i - off]
        ELSE IF i <= Len(mem) THEN mem[i]
        ELSE UNINIT]

\* a memmove that leaves out the last of the n bytes
memmove_short(mem, dst, src, n) == Write(mem, dst, SubSeq(mem, src + 1, src + n - 1))

memmove(mem, dst, src, n) == Write(mem, dst, SubSeq(mem, src + 1, src + n))

memcpy(mem, dst, bytes) == Write(mem, dst, bytes)

strcpy(str) == str \o <<NUL>>

(***************************************************************************)
(* The linked list                                                         *)
(***************************************************************************)
FreeNode == [used |-> FALSE, key |-> <<>>, keyterm |-> TRUE,
             value |-> <<>>, next |-> NULL]

RECURSIVE ListFrom(_, _, _)
\* the node ids reachable from n by next links (fuel bounds the walk)
ListFrom(nd, n, fuel) ==
    IF n = NULL \/ fuel = 0 THEN <<>>
    ELSE <<n>> \o ListFrom(nd, nd[n].next, fuel - 1)

List(nd, hd) == ListFrom(nd, hd, MaxAliases + 1)

\* the (key, value) pairs in list order
EntriesOf(nd, hd) ==
    LET l == List(nd, hd)
    IN  [i \in 1..Len(l) |-> [key |-> nd[l[i]].key, value |-> nd[l[i]].value]]

Entries == EntriesOf(nodes, head)

(***************************************************************************)
(* The alias table: alias_exists, unalias, the tail of alias               *)
(***************************************************************************)
\* the globals of alias.c as one value
Globals == [head |-> head, tail |-> tail, nodes |-> nodes,
            total |-> total_alias_val_length, nb |-> nb_aliases,
            changed |-> alias_key_changed, status |-> EXIT_SUCCESS]

alias_exists(g, key) ==
    IF g.head = NULL THEN FALSE
    ELSE \E n \in NodeIds :
            /\ \E i \in 1..Len(List(g.nodes, g.head)) : List(g.nodes, g.head)[i] = n
            /\ strcmp(g.nodes[n].key, key) = 0

RECURSIVE FindAlias(_, _, _, _, _)
\* the while loop of unalias: <<prev, cur>> at the first match, cur = NULL at none
FindAlias(nd, c, prev, key, fuel) ==
    IF c = NULL \/ fuel = 0 THEN <<prev, NULL>>
    ELSE IF strncmp(nd[c].key, key, MAX_ALIAS_KEY_LENGTH) = 0 THEN <<prev, c>>
    ELSE FindAlias(nd, nd[c].next, c, key, fuel - 1)

\* unalias that forgets alias_key_changed = true on a removal
unalias_noflag(g, key) ==
    LET f == FindAlias(g.nodes, g.head, NULL, key, MaxAliases + 1)
        prev == f[1]
        c == f[2]
    IN  IF c = NULL THEN [g EXCEPT !.status = EXIT_FAILURE]
        ELSE [head |-> IF prev # NULL THEN g.head ELSE g.nodes[c].next,
              tail |-> IF c = g.tail THEN prev ELSE g.tail,
              nodes |-> [n \in NodeIds |->
                            IF n = c THEN FreeNode
                            ELSE IF n = prev
                                 THEN [g.nodes[n] EXCEPT !.next = g.nodes[c].next]
                                 ELSE g.nodes[n]],
              total |-> g.total - strnlen(g.nodes[c].value, MAX_ALIAS_VAL_LENGTH),
              nb |-> g.nb - 1,
              changed |-> g.changed,
              status |-> EXIT_SUCCESS]

\* unalias that sets alias_key_changed before it looks for the key
unalias_dirty(g, key) ==
    LET f == FindAlias(g.nodes, g.head, NULL, key, MaxAliases + 1)
        prev == f[1]
        c == f[2]
    IN  IF c = NULL THEN [g EXCEPT !.status = EXIT_FAILURE, !.changed = TRUE]
        ELSE [head |-> IF prev # NULL THEN g.head ELSE g.nodes[c].next,
              tail |-> IF c = g.tail THEN prev ELSE g.tail,
              nodes |-> [n \in NodeIds |->
                            IF n = c THEN FreeNode
                            ELSE IF n = prev
                                 THEN [g.nodes[n] EXCEPT !.next = g.nodes[c].next]
                                 ELSE g.nodes[n]],
              total |-> g.total - strnlen(g.nodes[c].value, MAX_ALIAS_VAL_LENGTH),
              nb |-> g.nb - 1,
              changed |-> TRUE,
              status |-> EXIT_SUCCESS]

\* unalias that leaves tail alone when it removes the last alias of the list
unalias_keeptail(g, key) ==
    LET f == FindAlias(g.nodes, g.head, NULL, key, MaxAliases + 1)
        prev == f[1]
        c == f[2]
    IN  IF c = NULL THEN [g EXCEPT !.status = EXIT_FAILURE]
        ELSE [head |-> IF prev # NULL THEN g.head ELSE g.nodes[c].next,
              tail |-> g.tail,
              nodes |-> [n \in NodeIds |->
                            IF n = c THEN FreeNode
                            ELSE IF n = prev
                                 THEN [g.nodes[n] EXCEPT !.next = g.nodes[c].next]
                                 ELSE g.nodes[n]],
              total |-> g.total - strnlen(g.nodes[c].value, MAX_ALIAS_VAL_LENGTH),
              nb |-> g.nb - 1,
              changed |-> TRUE,
              status |-> EXIT_SUCCESS]

\* the globals after unalias(key), with its return value in status
unalias(g, key) ==
    LET f == FindAlias(g.nodes, g.head, NULL, key, MaxAliases + 1)
        prev == f[1]
        c == f[2]
    IN  IF c = NULL THEN [g EXCEPT !.status = EXIT_FAILURE]
        ELSE [head |-> IF prev # NULL THEN g.head ELSE g.nodes[c].next,
              tail |-> IF c = g.tail THEN prev ELSE g.tail,
              nodes |-> [n \in NodeIds |->
                            IF n = c THEN FreeNode
                            ELSE IF n = prev
                                 THEN [g.nodes[n] EXCEPT !.next = g.nodes[c].next]
                                 ELSE g.nodes[n]],
              total |-> g.total - strnlen(g.nodes[c].value, MAX_ALIAS_VAL_LENGTH),
              nb |-> g.nb - 1,
              changed |-> TRUE,
              status |-> EXIT_SUCCESS]

\* the key as later reads of new->key see it: strncpy copies keylength + 1
\* bytes, which leaves no NUL when k is longer than MAX_ALIAS_KEY_LENGTH, and
\* the read then runs on into whatever follows (junk)
StoredKey(k, junk) ==
    LET keylength == strnlen(k, MAX_ALIAS_KEY_LENGTH)
    IN  IF Len(k) >= keylength + 1 THEN SubSeq(k, 1, keylength + 1) \o junk
        ELSE k

\* whether strncpy wrote a NUL inside the keylength + 1 bytes allocated
KeyTerminated(k) == Len(k) < strnlen(k, MAX_ALIAS_KEY_LENGTH) + 1

\* new->value = val: the buffer resolvealiases() returned, as it is
StoredValue(val) == val

\* the amount alias() adds to total_alias_val_length
vallength(val) == strnlen(val, MAX_ALIAS_VAL_LENGTH)

\* malloc: a record that is not in use
Fresh(nd) == SetMin({n \in NodeIds : ~nd[n].used})

\* alias that leaves alias_key_changed as unalias left it
alias_tail_noflag(g0, k, val, junk) ==
    LET new == Fresh(g0.nodes)
        rec == [used |-> TRUE, key |-> StoredKey(k, junk),
                keyterm |-> KeyTerminated(k),
                value |-> StoredValue(val), next |-> NULL]
        g1 == IF alias_exists(g0, k) THEN unalias(g0, k) ELSE g0
        linked == [n \in NodeIds |->
                     IF n = new THEN rec
                     ELSE IF g1.head # NULL /\ n = g1.tail
                          THEN [g1.nodes[n] EXCEPT !.next = new]
                          ELSE g1.nodes[n]]
    IN  [head |-> IF g1.head = NULL THEN new ELSE g1.head,
         tail |-> new,
         nodes |-> linked,
         total |-> g1.total + vallength(val),
         nb |-> g1.nb + 1,
         changed |-> g1.changed,
         status |-> EXIT_SUCCESS]

\* lines 50-78 of alias(k, v), once resolvealiases(v) has returned val
alias_tail(g0, k, val, junk) ==
    LET new == Fresh(g0.nodes)
        rec == [used |-> TRUE, key |-> StoredKey(k, junk),
                keyterm |-> KeyTerminated(k),
                value |-> StoredValue(val), next |-> NULL]
        g1 == IF alias_exists(g0, k) THEN unalias(g0, k) ELSE g0
        linked == [n \in NodeIds |->
                     IF n = new THEN rec
                     ELSE IF g1.head # NULL /\ n = g1.tail
                          THEN [g1.nodes[n] EXCEPT !.next = new]
                          ELSE g1.nodes[n]]
    IN  [head |-> IF g1.head = NULL THEN new ELSE g1.head,
         tail |-> new,
         nodes |-> linked,
         total |-> g1.total + vallength(val),
         nb |-> g1.nb + 1,
         changed |-> TRUE,
         status |-> EXIT_SUCCESS]

SetGlobals(g) ==
    /\ head' = g.head
    /\ tail' = g.tail
    /\ nodes' = g.nodes
    /\ total_alias_val_length' = g.total
    /\ nb_aliases' = g.nb
    /\ alias_key_changed' = g.changed

(***************************************************************************)
(* resolvealiases and is_valid_alias                                       *)
(***************************************************************************)
\* the answer of the external is_valid_cmd(key, context, i): an opaque
\* predicate, so one call is one free choice (ans) unless the oracle fixes it
is_valid_cmd(oracle, ans) ==
    \/ oracle = "always"
    \/ oracle = "any" /\ ans

\* a scan that does not move past a match it did not replace
ResumeAfterKey_stay(p, key) == p

\* offset the scan resumes at after a match at p that was not replaced
ResumeAfterKey(p, key) == p + Len(key)

\* a scan that goes over the value it has just inserted
ResumeAfterValue_rescan(p, value) == p

\* offset the scan resumes at after the match at p was replaced by value
ResumeAfterValue(p, value) == p + Len(value)

\* is_valid_alias that takes every unescaped match for valid
is_valid_alias_yes(key, context, i, cmd) ==
    IF i > 0 /\ context[i] = BS
    THEN [valid |-> FALSE, escaped |-> TRUE, asked |-> "none",
          context |-> memmove(context, i - 1, i, strlen(context, i) + 1)]
    ELSE [valid |-> TRUE, escaped |-> FALSE, asked |-> "none",
          context |-> context]

\* is_valid_alias without the rule for keys that begin with '~'
is_valid_alias_notilde(key, context, i, cmd) ==
    IF i > 0 /\ context[i] = BS
    THEN [valid |-> FALSE, escaped |-> TRUE, asked |-> "none",
          context |-> memmove(context, i - 1, i, strlen(context, i) + 1)]
    ELSE [valid |-> cmd, escaped |-> FALSE,
          asked |-> IF cmd THEN "true" ELSE "false", context |-> context]

\* is_valid_alias(key, context, i): its result, the context it leaves, and
\* what is_valid_cmd answered ("none" when it was not called)
is_valid_alias(key, context, i, cmd) ==
    IF i > 0 /\ context[i] = BS
    THEN [valid |-> FALSE, escaped |-> TRUE, asked |-> "none",
          context |-> memmove(context, i - 1, i, strlen(context, i) + 1)]
    ELSE IF key[1] = "~"
    THEN [valid |-> TRUE, escaped |-> FALSE, asked |-> "none",
          context |-> context]
    ELSE [valid |-> cmd, escaped |-> FALSE,
          asked |-> IF cmd THEN "true" ELSE "false", context |-> context]

\* resolvealiases that copies its input and substitutes nothing
ResolveInit_raw(str, g) ==
    LET size == Len(str) + g.total
    IN  [maxsize |-> size, ret |-> strcpy(str), cur |-> NULL, str |-> 0,
         oob |-> Len(str) + 1 > size, nsubst |-> 0, nstrip |-> 0,
         asked |-> "none"]

\* resolvealiases that starts its outer loop at the last alias
ResolveInit_tail(str, g) ==
    LET size == Len(str) + g.total
    IN  [maxsize |-> size, ret |-> strcpy(str), cur |-> g.tail, str |-> 0,
         oob |-> Len(str) + 1 > size, nsubst |-> 0, nstrip |-> 0,
         asked |-> "none"]

\* lines 167-170 and the initialisation of the for loops
ResolveInit(str, g) ==
    LET size == Len(str) + g.total
    IN  [maxsize |-> size, ret |-> strcpy(str), cur |-> g.head, str |-> 0,
         oob |-> Len(str) + 1 > size, nsubst |-> 0, nstrip |-> 0,
         asked |-> "none"]

\* one iteration of the inner loop, for the match of cur->key found at p
LoopBody(r, key, value, p, cmd) ==
    LET iv == is_valid_alias(key, r.ret, p, cmd)
    IN  IF iv.valid
        THEN LET after == p + Len(key)
                 n == strlen(iv.context, after) + 1
                 moved == memmove(iv.context, p + Len(value), after, n)
             IN  [r EXCEPT !.ret = memcpy(moved, p, value),
                           !.str = ResumeAfterValue(p, value),
                           !.oob = @ \/ (p + Len(value) + n > r.maxsize),
                           !.nsubst = @ + 1,
                           !.asked = iv.asked]
        ELSE [r EXCEPT !.ret = iv.context,
                       !.str = ResumeAfterKey(p, key),
                       !.nstrip = @ + (IF iv.escaped THEN 1 ELSE 0),
                       !.asked = iv.asked]

(***************************************************************************)
(* State machine                                                           *)
(***************************************************************************)
NoCall == [fn |-> "none", k |-> <<>>, v |-> <<>>, oracle |-> "never"]

NoResolve == [maxsize |-> 0, ret |-> <<>>, cur |-> NULL, str |-> 0,
              oob |-> FALSE, nsubst |-> 0, nstrip |-> 0, asked |-> "none"]

NoLast == [op |-> "none", k |-> <<>>, v |-> <<>>, oracle |-> "never",
           status |-> "none", text |-> <<>>, keys |-> <<>>,
           only_on_change |-> FALSE, since |-> FALSE,
           oob |-> FALSE, nsubst |-> 0, nstrip |-> 0, entries |-> <<>>,
           alloc |-> "ok"]

Init ==
    /\ head = NULL
    /\ tail = NULL
    /\ nodes = [n \in NodeIds |-> FreeNode]
    /\ total_alias_val_length = 0
    /\ nb_aliases = 0
    /\ alias_key_changed = FALSE
    /\ pc = "idle"
    /\ call = NoCall
    /\ rs = NoResolve
    /\ last = NoLast
    /\ since = FALSE
    /\ ndefs = 0

\* alias(k, v) is called: it starts with resolvealiases(v)
AliasCall(k, v, oracle) ==
    /\ pc = "idle"
    /\ \E n \in NodeIds : ~nodes[n].used
    /\ ndefs < MaxDefines
    /\ ndefs' = ndefs + 1
    /\ pc' = "resolve"
    /\ call' = [fn |-> "alias", k |-> k, v |-> v, oracle |-> oracle]
    /\ rs' = ResolveInit(v, Globals)
    /\ last' = NoLast
    /\ UNCHANGED <<table, alias_key_changed, since>>

\* resolvealiases(s) is called by the shell
ResolveCall(str, oracle) ==
    /\ pc = "idle"
    /\ pc' = "resolve"
    /\ call' = [fn |-> "resolvealiases", k |-> <<>>, v |-> str, oracle |-> oracle]
    /\ rs' = ResolveInit(str, Globals)
    /\ last' = NoLast
    /\ UNCHANGED <<table, alias_key_changed, since, ndefs>>

\* the match strstr finds for the current alias, or NOTFOUND
Match == IF rs.cur = NULL THEN NOTFOUND
         ELSE strstr(rs.ret, rs.str, nodes[rs.cur].key)

\* the inner loop ends: no further occurrence of cur->key
ResolveNextAlias ==
    /\ pc = "resolve"
    /\ rs.cur # NULL
    /\ Match = NOTFOUND
    /\ rs' = [rs EXCEPT !.cur = nodes[rs.cur].next, !.str = 0]
    /\ UNCHANGED <<table, alias_key_changed, pc, call, last, since, ndefs>>

ResolveIteration(ans, kind) ==
    /\ pc = "resolve"
    /\ rs.cur # NULL
    /\ Match # NOTFOUND
    /\ LET key == nodes[rs.cur].key
           cmd == is_valid_cmd(call.oracle, ans)
           iv == is_valid_alias(key, rs.ret, Match, cmd)
       IN  /\ kind = (IF iv.escaped THEN "escaped"
                      ELSE IF iv.valid THEN "valid" ELSE "invalid")
           /\ rs' = LoopBody(rs, key, nodes[rs.cur].value, Match, cmd)
    /\ UNCHANGED <<table, alias_key_changed, pc, call, last, since, ndefs>>

\* the match is escaped: the backslash is removed, nothing is replaced
ResolveEscaped == ResolveIteration(FALSE, "escaped")

\* the match is valid: the key is replaced by the value
ResolveValid == \E ans \in BOOLEAN : ResolveIteration(ans, "valid")

\* the match is not valid: it is skipped
ResolveInvalid == \E ans \in BOOLEAN : ResolveIteration(ans, "invalid")

\* resolvealiases returns ret to the shell
ResolveReturn ==
    /\ pc = "resolve"
    /\ rs.cur = NULL
    /\ call.fn = "resolvealiases"
    /\ last' = [NoLast EXCEPT !.op = "resolvealiases", !.v = call.v,
                              !.oracle = call.oracle,
                              !.status = EXIT_SUCCESS,
                              !.text = CStr(rs.ret, 0), !.oob = rs.oob,
                              !.nsubst = rs.nsubst, !.nstrip = rs.nstrip]
    /\ pc' = "idle"
    /\ call' = NoCall
    /\ rs' = NoResolve
    /\ UNCHANGED <<table, alias_key_changed, since, ndefs>>

\* resolvealiases returns val to alias, which runs to its end
AliasFinish ==
    /\ pc = "resolve"
    /\ rs.cur = NULL
    /\ call.fn = "alias"
    /\ \E junk \in (IF KeyTerminated(call.k) THEN {<<>>} ELSE Garbage) :
          SetGlobals(alias_tail(Globals, call.k, CStr(rs.ret, 0), junk))
    /\ last' = [NoLast EXCEPT !.op = "alias", !.k = call.k, !.v = call.v,
                              !.oracle = call.oracle,
                              !.status = EXIT_SUCCESS,
                              !.text = CStr(rs.ret, 0), !.oob = rs.oob,
                              !.nsubst = rs.nsubst, !.nstrip = rs.nstrip]
    /\ since' = TRUE
    /\ pc' = "idle"
    /\ call' = NoCall
    /\ rs' = NoResolve
    /\ UNCHANGED ndefs

\* malloc returns NULL in alias(): for new (line 55) the store new->next =
\* NULL, for new->key (line 57) the strncpy, goes through a null pointer; no
\* branch tests for it, and the process is killed where it stands
AliasMallocFails(site) ==
    /\ pc = "resolve"
    /\ rs.cur = NULL
    /\ call.fn = "alias"
    /\ last' = [NoLast EXCEPT !.op = "alias", !.k = call.k, !.v = call.v,
                              !.oracle = call.oracle,
                              !.status = SIGSEGV, !.alloc = site]
    /\ pc' = "crashed"
    /\ call' = NoCall
    /\ rs' = NoResolve
    /\ UNCHANGED <<table, alias_key_changed, since, ndefs>>

Unalias(key) ==
    /\ pc = "idle"
    /\ LET g == unalias(Globals, key)
       IN  /\ SetGlobals(g)
           /\ last' = [NoLast EXCEPT !.op = "unalias", !.k = key,
                                     !.status = g.status]
           /\ since' = (since \/ g.status = EXIT_SUCCESS)
    /\ UNCHANGED <<pc, call, rs, ndefs>>

\* get_all_alias_keys(&nb_keys, only_on_change)
GetAllAliasKeys(only_on_change) ==
    /\ pc = "idle"
    /\ IF only_on_change /\ ~alias_key_changed
       THEN /\ last' = [NoLast EXCEPT !.op = "get_all_alias_keys",
                                      !.only_on_change = only_on_change,
                                      !.since = since,
                                      !.status = "NULL"]
            /\ UNCHANGED alias_key_changed
       ELSE /\ last' = [NoLast EXCEPT !.op = "get_all_alias_keys",
                                      !.only_on_change = only_on_change,
                                      !.since = since,
                                      !.status = "keys",
                                      !.keys = [i \in 1..Len(Entries) |->
                                                   Entries[i].key]]
            /\ alias_key_changed' = FALSE
    /\ since' = FALSE
    /\ UNCHANGED <<table, pc, call, rs, ndefs>>

\* printaliases(): one line per entry, from head on
PrintAliases ==
    /\ pc = "idle"
    /\ last' = [NoLast EXCEPT !.op = "printaliases", !.status = EXIT_SUCCESS,
                              !.entries = Entries]
    /\ UNCHANGED <<table, alias_key_changed, pc, call, rs, since, ndefs>>

\* alias_exists(key), called from outside alias()
AliasExists(key) ==
    /\ pc = "idle"
    /\ last' = [NoLast EXCEPT !.op = "alias_exists", !.k = key,
                              !.status = IF alias_exists(Globals, key)
                                         THEN "true" ELSE "false"]
    /\ UNCHANGED <<table, alias_key_changed, pc, call, rs, since, ndefs>>

Next ==
    \/ \E a \in DefArgs, o \in Oracles : AliasCall(a[1], a[2], o)
    \/ \E a \in ResolveArgs, o \in Oracles : ResolveCall(a, o)
    \/ ResolveNextAlias
    \/ ResolveEscaped
    \/ ResolveValid
    \/ ResolveInvalid
    \/ ResolveReturn
    \/ AliasFinish
    \/ \E site \in MallocSites : AliasMallocFails(site)
    \/ \E key \in UnaliasArgs : Unalias(key)
    \/ \E b \in BOOLEAN : GetAllAliasKeys(b)
    \/ PrintAliases
    \/ \E key \in ExistsArgs : AliasExists(key)

Spec == Init /\ [][Next]_vars

\* the steps of a call in progress; the shell is single-threaded, so a call
\* that has started runs on until it returns
ResolveStep ==
    \/ ResolveNextAlias
    \/ ResolveEscaped
    \/ ResolveValid
    \/ ResolveInvalid
    \/ ResolveReturn
    \/ AliasFinish

FairSpec == Spec /\ WF_vars(ResolveStep)

(***************************************************************************)
(* Text-level reading of resolvealiases, for a predicate that answers the  *)
(* same (always) at every call                                             *)
(***************************************************************************)
\* offset of the first occurrence of key in text at or after from
Find(text, from, key) ==
    LET hits == {p \in from..(Len(text) - Len(key)) :
                    SubSeq(text, p + 1, p + Len(key)) = key}
    IN  IF hits = {} THEN NOTFOUND ELSE SetMin(hits)

RECURSIVE RefPass(_, _, _, _, _)
\* the inner loop for one alias, from offset from on
RefPass(text, from, key, value, always) ==
    LET p == Find(text, from, key)
    IN  IF p = NOTFOUND THEN text
        ELSE IF p > 0 /\ text[p] = BS
        THEN RefPass(SubSeq(text, 1, p - 1) \o SubSeq(text, p + 1, Len(text)),
                     p + Len(key), key, value, always)
        ELSE IF key[1] = "~" \/ always
        THEN RefPass(SubSeq(text, 1, p) \o value
                        \o SubSeq(text, p + Len(key) + 1, Len(text)),
                     p + Len(value), key, value, always)
        ELSE RefPass(text, p + Len(key), key, value, always)

RECURSIVE RefResolve(_, _, _)
\* the outer loop: one pass per entry, in list order
RefResolve(entries, text, always) ==
    IF entries = <<>> THEN text
    ELSE RefResolve(Tail(entries),
                    RefPass(text, 0, Head(entries).key, Head(entries).value, always),
                    always)

RECURSIVE StripsTo(_, _, _)
\* out is inp with backslashes deleted, each of them right before an
\* occurrence of one of keys, and nothing else changed
StripsTo(inp, out, keys) ==
    IF inp = <<>> THEN out = <<>>
    ELSE IF out # <<>> /\ Head(inp) = Head(out)
    THEN StripsTo(Tail(inp), Tail(out), keys)
    ELSE /\ Head(inp) = BS
         /\ \E key \in keys : Take(out, Len(key)) = key /\ Len(out) >= Len(key)
         /\ StripsTo(Tail(inp), out, keys)

KeysOf(entries) == {entries[i].key : i \in 1..Len(entries)}

Sum(f, n) == LET RECURSIVE S(_)
                 S(i) == IF i = 0 THEN 0 ELSE f[i] + S(i - 1)
             IN  S(n)

\* key has an entry, as unalias compares: up to MAX_ALIAS_KEY_LENGTH characters
HasEntryFor(key) ==
    \E i \in 1..Len(Entries) :
        Take(Entries[i].key, MAX_ALIAS_KEY_LENGTH) = Take(key, MAX_ALIAS_KEY_LENGTH)

(***************************************************************************)
(* Claims                                                                  *)
(***************************************************************************)

\* C1: no two entries of the table have the same stored key.
C1_KeysUnique ==
    \A i, j \in 1..Len(Entries) :
        i # j => Entries[i].key # Entries[j].key

\* C2: total_alias_val_length is the sum of the lengths of the stored values.
C2_TotalIsSum ==
    total_alias_val_length =
        Sum([i \in 1..Len(Entries) |-> Len(Entries[i].value)], Len(Entries))

\* C3: get_all_alias_keys(_, true) returns NULL exactly when no alias() and
\* no successful unalias() ran since the previous get_all_alias_keys call,
\* and otherwise returns the keys of the table, in list order.
C3_SnapshotOnChange ==
    (last.op = "get_all_alias_keys" /\ last.only_on_change) =>
        /\ (last.status = "NULL") = ~last.since
        /\ last.status # "NULL" =>
              /\ last.status = "keys"
              /\ last.keys = [i \in 1..Len(Entries) |-> Entries[i].key]

C3_Witness ==
    /\ last.op = "get_all_alias_keys"
    /\ last.only_on_change
    /\ last.since
    /\ last.status = "keys"
    /\ Len(last.keys) = 2

\* C4: unalias(key) for a key that has no entry returns EXIT_FAILURE and
\* changes neither the list, nor nb_aliases, nor total_alias_val_length, nor
\* alias_key_changed.
C4_FailedRemoveNoEffect ==
    [][\A key \in UnaliasArgs :
          (pc = "idle" /\ ~HasEntryFor(key)
             /\ last'.op = "unalias" /\ last'.k = key) =>
                /\ last'.status = EXIT_FAILURE
                /\ table' = table
                /\ alias_key_changed' = alias_key_changed]_vars

C4_Witness ==
    /\ last.op = "unalias"
    /\ last.status = EXIT_FAILURE
    /\ ~HasEntryFor(last.k)
    /\ nb_aliases > 0
    /\ ~alias_key_changed

\* C5: the key alias() stores is the first MAX_ALIAS_KEY_LENGTH characters
\* of k, with its terminator.
C5_KeyTruncated ==
    (last.op = "alias" /\ last.status = EXIT_SUCCESS) =>
        /\ nodes[tail].key = Take(last.k, MAX_ALIAS_KEY_LENGTH)
        /\ nodes[tail].keyterm

\* C6: the value alias() stores is the first MAX_ALIAS_VAL_LENGTH characters
\* of the resolved value, so no stored value is longer than that.
C6_ValueTruncated ==
    /\ (last.op = "alias" /\ last.status = EXIT_SUCCESS) =>
          nodes[tail].value = Take(last.text, MAX_ALIAS_VAL_LENGTH)
    /\ \A i \in 1..Len(Entries) : Len(Entries[i].value) <= MAX_ALIAS_VAL_LENGTH

\* C7: an occurrence of an alias key right after a backslash is not
\* replaced and loses exactly that backslash: for an input that is a
\* backslash followed by a key of the table, the output is that key.
C7_EscapedNotSubstituted ==
    (last.op = "resolvealiases") =>
        \A i \in 1..Len(Entries) :
            last.v = <<BS>> \o Entries[i].key => last.text = Entries[i].key

\* the aliases the outer loop has not finished with
Remaining == Len(ListFrom(nodes, rs.cur, MaxAliases + 1))

\* the text the inner loop has not scanned
Unscanned == strlen(rs.ret, rs.str)

\* C8: every call of resolvealiases, from the shell or from alias(), comes to
\* its end, whatever is_valid_cmd answers: no step of a call in progress
\* leaves its state as it is, and each step either ends the call or makes
\* the pair (aliases left, text left to scan) smaller in lexicographic
\* order; with ls -> "ls --color" as the only alias and every match valid,
\* "ls" resolves to "ls --color" by one substitution.
C8_ResolveTerminates ==
    /\ []((pc = "resolve" /\ rs.cur # NULL) =>
             IF Match = NOTFOUND THEN nodes[rs.cur].next # rs.cur
             ELSE \A ans \in BOOLEAN :
                     LoopBody(rs, nodes[rs.cur].key, nodes[rs.cur].value, Match,
                              is_valid_cmd(call.oracle, ans)) # rs)
    /\ [][(pc = "resolve" /\ pc' = "resolve") =>
             \/ Remaining' < Remaining
             \/ Remaining' = Remaining /\ Unscanned' < Unscanned]_vars
    /\ []((/\ last.op = "resolvealiases"
           /\ last.v = k_ls
           /\ last.oracle = "always"
           /\ Entries = <<[key |-> k_ls, value |-> v_ls]>>)
              => (last.text = v_ls /\ last.nsubst = 1))

C8_Witness ==
    /\ last.op = "resolvealiases"
    /\ last.v = k_ls
    /\ last.oracle = "always"
    /\ Entries = <<[key |-> k_ls, value |-> v_ls]>>
    /\ last.text = v_ls

\* C9: alias(k, v) stores for k the text resolvealiases(v) yields against the
\* table as it is when alias() is called (which no step of the call changes
\* before the new entry is linked in), and no later step changes the value
\* of an entry that stays in the table.
C9_ValueResolvedAtDefinition ==
    [][/\ (pc = "resolve" /\ pc' = "resolve") =>
             (table' = table /\ call' = call)
       /\ (pc = "resolve" /\ pc' = "idle" /\ call.fn = "alias"
             /\ call.oracle # "any") =>
             nodes'[tail'].value =
                 RefResolve(Entries, call.v, call.oracle = "always")
       /\ \A n \in NodeIds :
             (nodes[n].used /\ nodes'[n].used /\ nodes'[n].key = nodes[n].key)
                => nodes'[n].value = nodes[n].value]_vars

C9_Witness ==
    /\ last.op = "alias"
    /\ last.k = k_c
    /\ last.v = v_a
    /\ last.oracle = "always"
    /\ Entries = <<[key |-> k_a, value |-> v_b], [key |-> k_c, value |-> v_b]>>

\* C10 as stated: with is_valid_cmd false at every call, resolvealiases
\* replaces no key and only deletes backslashes that precede a key match,
\* whatever the table holds.
C10_NeverValidOnlyStripsAnyTable ==
    (last.op = "resolvealiases" /\ last.oracle = "never") =>
        /\ last.nsubst = 0
        /\ StripsTo(last.v, last.text, KeysOf(Entries))

\* C10, amended: the same, for a table none of whose keys begins with '~'.
C10_NeverValidOnlyStrips ==
    (/\ last.op = "resolvealiases"
     /\ last.oracle = "never"
     /\ \A key \in KeysOf(Entries) : key[1] # "~") =>
        /\ last.nsubst = 0
        /\ StripsTo(last.v, last.text, KeysOf(Entries))

C10_Witness ==
    /\ last.op = "resolvealiases"
    /\ last.oracle = "never"
    /\ \A key \in KeysOf(Entries) : key[1] # "~"
    /\ Len(Entries) = 2
    /\ last.nstrip = 1
    /\ last.v = <<BS, "l", "s">>
    /\ last.text = k_ls

\* C11: alias_key_changed is false at the start; it is true after every
\* alias() (a redefinition included) and after every unalias() that returns
\* EXIT_SUCCESS; only a get_all_alias_keys call that returns keys turns it
\* from true to false; the steps of resolvealiases, printaliases,
\* alias_exists, an unalias that returns EXIT_FAILURE and a
\* get_all_alias_keys call that returns NULL leave it as it was.
C11_DirtyFlag ==
    /\ ~alias_key_changed
    /\ [][/\ (pc = "resolve" /\ pc' = "idle" /\ call.fn = "alias") =>
                alias_key_changed'
          /\ (pc = "idle" /\ last'.op = "unalias"
                /\ last'.status = EXIT_SUCCESS) => alias_key_changed'
          /\ (alias_key_changed /\ ~alias_key_changed') =>
                (last'.op = "get_all_alias_keys" /\ last'.status = "keys")
          /\ (\/ pc' = "resolve"
              \/ pc = "resolve" /\ call.fn = "resolvealiases"
              \/ pc = "idle" /\ last'.op \in {"printaliases", "alias_exists"}
              \/ pc = "idle" /\ last'.op = "unalias"
                    /\ last'.status = EXIT_FAILURE
              \/ pc = "idle" /\ last'.op = "get_all_alias_keys"
                    /\ last'.status = "NULL") =>
                alias_key_changed' = alias_key_changed]_vars

C11_Witness ==
    /\ last.op = "get_all_alias_keys"
    /\ last.status = "keys"
    /\ last.since
    /\ ~alias_key_changed
    /\ nb_aliases = 1
    /\ ndefs = 2

\* C12: alias() fails only when an allocation fails; it then returns
\* EXIT_FAILURE to its caller and leaves the list, nb_aliases and
\* total_alias_val_length as they were before the call.
C12_FailedDefineReported ==
    [][(call.fn = "alias" /\ pc = "resolve" /\ pc' # "resolve") =>
          /\ pc' = "idle"
          /\ last'.op = "alias"
          /\ last'.status \in {EXIT_SUCCESS, EXIT_FAILURE}
          /\ (last'.status = EXIT_FAILURE) = (last'.alloc # "ok")
          /\ (last'.status = EXIT_FAILURE) => table' = table]_vars

\* C13: at every step of resolvealiases the text of the buffer and its
\* terminator lie within the maxsize bytes that were allocated, and no write
\* (the strcpy of the input, the memmove and memcpy of a substitution) has
\* gone outside them.
C13_BufferFits ==
    (pc = "resolve") =>
        /\ strlen(rs.ret, 0) + 1 <= rs.maxsize
        /\ ~rs.oob

\* C14: after an escaped match of cur->key at offset i the scan resumes at
\* i - 1 + strlen(cur->key), right after the key text that the removal of
\* the backslash moved one place to the left (so an occurrence that starts
\* there is still found), and the scan position is not beyond the terminator
\* of the buffer's text.
C14_EscapedResume ==
    [][(/\ pc = "resolve" /\ pc' = "resolve"
        /\ rs.cur # NULL
        /\ Match # NOTFOUND
        /\ Match > 0
        /\ rs.ret[Match] = BS
        /\ rs' # rs) =>
          /\ rs'.str = Match - 1 + Len(nodes[rs.cur].key)
          /\ rs'.str <= strlen(rs'.ret, 0)]_vars

\* C15: a match of cur->key at offset i with no backslash before it is
\* replaced by cur->value exactly when the key begins with '~' or
\* is_valid_cmd(key, ret, i) answered true; for a key that begins with '~'
\* it is replaced at any offset and is_valid_cmd is not called; for a match
\* with a backslash before it nothing is replaced and is_valid_cmd is not
\* called.
C15_ValidityRule ==
    [][(/\ pc = "resolve" /\ pc' = "resolve"
        /\ rs.cur # NULL
        /\ Match # NOTFOUND
        /\ rs' # rs) =>
          LET key == nodes[rs.cur].key
              escaped == Match > 0 /\ rs.ret[Match] = BS
              replaced == rs'.nsubst = rs.nsubst + 1
          IN  /\ replaced \/ rs'.nsubst = rs.nsubst
              /\ escaped => (~replaced /\ rs'.asked = "none")
              /\ ~escaped => (replaced <=> (key[1] = "~" \/ rs'.asked = "true"))
              /\ (~escaped /\ key[1] = "~") => rs'.asked = "none"
              /\ (~escaped /\ key[1] # "~") =>
                    /\ rs'.asked \in {"true", "false"}
                    /\ call.oracle = "always" => rs'.asked = "true"
                    /\ call.oracle = "never" => rs'.asked = "false"
              /\ replaced =>
                    SubSeq(rs'.ret, Match + 1, Match + Len(nodes[rs.cur].value))
                        = nodes[rs.cur].value
              /\ (~replaced /\ ~escaped) => rs'.ret = rs.ret]_vars

C15_Witness ==
    /\ pc = "resolve"
    /\ call.oracle = "never"
    /\ rs.cur # NULL
    /\ nodes[rs.cur].key = k_tilde
    /\ rs.nsubst = 1
    /\ rs.asked = "none"
    /\ CStr(rs.ret, 0) = v_home

\* whether the C string at offset 0 of mem has its terminator
Terminated(mem) == NulAt(mem, 0) < Len(mem)

\* C16: a valid substitution of cur->key by cur->value at offset i turns the
\* text B of the buffer into B[0..i) ++ value ++ B[i + len(key)..end], with
\* its terminator, whether the value is shorter than, as long as, or longer
\* than the key.
C16_Splice ==
    [][(/\ pc = "resolve" /\ pc' = "resolve"
        /\ rs.cur # NULL
        /\ Match # NOTFOUND
        /\ rs'.nsubst = rs.nsubst + 1) =>
          LET key == nodes[rs.cur].key
              value == nodes[rs.cur].value
              B == CStr(rs.ret, 0)
          IN  /\ Match + Len(key) <= Len(B)
              /\ CStr(rs'.ret, 0) =
                    SubSeq(B, 1, Match) \o value
                        \o SubSeq(B, Match + Len(key) + 1, Len(B))
              /\ Terminated(rs'.ret)]_vars

\* a value shorter than its key has been spliced in, with text after it
C16_Witness ==
    /\ pc = "resolve"
    /\ rs.cur # NULL
    /\ nodes[rs.cur].key = k_ls
    /\ nodes[rs.cur].value = v_x
    /\ rs.nsubst = 1
    /\ call.v = <<"l", "s", ";", "l", "s">>
    /\ CStr(rs.ret, 0) = <<"x", ";", "l", "s">>

\* C17: resolvealiases runs one pass per alias, in list order from head:
\* a call starts at head on a copy of its input; a pass goes on with the
\* same alias while its key is found and, once it is not found from the
\* scan position on, the next alias in the list starts at offset 0 of the
\* buffer as the passes before it left it (no pass is returned to); the
\* text returned is the composition of the single-alias passes in list
\* order.
C17_PassOrder ==
    /\ [][/\ (pc = "idle" /\ pc' = "resolve") =>
                /\ rs'.cur = head
                /\ rs'.str = 0
                /\ CStr(rs'.ret, 0) = call'.v
          /\ (pc = "resolve" /\ pc' = "resolve") =>
                \/ /\ Match # NOTFOUND
                   /\ rs'.cur = rs.cur
                \/ /\ Match = NOTFOUND
                   /\ rs'.cur = nodes[rs.cur].next
                   /\ rs'.str = 0
                   /\ rs'.ret = rs.ret
          /\ (pc = "resolve" /\ pc' # "resolve") => rs.cur = NULL]_vars
    /\ []((last.op = "resolvealiases" /\ last.oracle # "any") =>
             last.text = RefResolve(Entries, last.v, last.oracle = "always"))

\* the value the pass of ls inserted is searched for the key l that was
\* defined after ls
C17_Witness ==
    /\ last.op = "resolvealiases"
    /\ last.oracle = "always"
    /\ last.v = k_ls
    /\ Entries = <<[key |-> k_ls, value |-> v_ls], [key |-> k_l, value |-> v_x]>>
    /\ last.text = <<"x", "s", " ", "-", "-", "c", "o", "x", "o", "r">>
    /\ last.nsubst = 3

\* the end of the match examined at offset p in the step from rs to r: of the
\* value when it was replaced, of the key text (one place to the left when a
\* backslash was removed) when it was not
EndOfExamined(r, p, key, value) ==
    IF r.nsubst = rs.nsubst + 1 THEN p + Len(value)
    ELSE IF r.nstrip = rs.nstrip + 1 THEN p - 1 + Len(key)
    ELSE p + Len(key)

\* C18 as stated: in the pass of one alias the scan position gets larger in
\* every iteration, the match examined next starts at or after the end of
\* the match examined now (of the value inserted for it, when it was
\* replaced), and a match that is neither escaped nor valid leaves the
\* buffer as it is and is not examined again.
C18_ScanStrictlyIncreases ==
    [][(/\ pc = "resolve" /\ pc' = "resolve"
        /\ rs.cur # NULL
        /\ Match # NOTFOUND) =>
          LET key == nodes[rs.cur].key
              value == nodes[rs.cur].value
              end == EndOfExamined(rs', Match, key, value)
          IN  /\ rs'.str > rs.str
              /\ Match >= rs.str
              /\ rs'.str >= end
              /\ Match' # NOTFOUND => Match' >= end
              /\ (rs'.nsubst = rs.nsubst /\ rs'.nstrip = rs.nstrip) =>
                    (rs'.ret = rs.ret /\ rs'.str = Match + Len(key))]_vars

\* C18, amended: the same, but the scan position stays where it is when the
\* match at the scan position is replaced by an empty value; the text of the
\* buffer is then shorter by the length of the key.
C18_ScanAdvances ==
    [][(/\ pc = "resolve" /\ pc' = "resolve"
        /\ rs.cur # NULL
        /\ Match # NOTFOUND) =>
          LET key == nodes[rs.cur].key
              value == nodes[rs.cur].value
              end == EndOfExamined(rs', Match, key, value)
          IN  /\ \/ rs'.str > rs.str
                 \/ /\ rs'.nsubst = rs.nsubst + 1
                    /\ value = <<>>
                    /\ Match = rs.str
                    /\ rs'.str = rs.str
                    /\ strlen(rs'.ret, 0) = strlen(rs.ret, 0) - Len(key)
              /\ Match >= rs.str
              /\ rs'.str >= end
              /\ Match' # NOTFOUND => Match' >= end
              /\ (rs'.nsubst = rs.nsubst /\ rs'.nstrip = rs.nstrip) =>
                    (rs'.ret = rs.ret /\ rs'.str = Match + Len(key))]_vars

\* ls in "ls;ls" was replaced by "ls --color" and the scan is past the value
C18_Witness ==
    /\ pc = "resolve"
    /\ rs.cur # NULL
    /\ nodes[rs.cur].key = k_ls
    /\ nodes[rs.cur].value = v_ls
    /\ rs.nsubst = 1
    /\ rs.str = Len(v_ls)
    /\ Match = Len(v_ls) + 1

\* two keys are the same key of the table when their first
\* MAX_ALIAS_KEY_LENGTH characters are the same
SameKey(a, b) == Take(a, MAX_ALIAS_KEY_LENGTH) = Take(b, MAX_ALIAS_KEY_LENGTH)

\* entries without its first entry for key
RECURSIVE WithoutFirst(_, _)
WithoutFirst(entries, key) ==
    IF entries = <<>> THEN <<>>
    ELSE IF SameKey(Head(entries).key, key) THEN Tail(entries)
    ELSE <<Head(entries)>> \o WithoutFirst(Tail(entries), key)

\* C19: the list is in insertion order: alias(k, v) leaves the entries that
\* were there and are not for k in their order and puts the entry for k
\* after them, at tail (a redefinition thereby removes the old entry for k);
\* a successful unalias(key) removes one entry and leaves the others in
\* their order; printaliases and get_all_alias_keys report the entries in
\* list order.
C19_InsertionOrder ==
    /\ [][/\ (pc = "resolve" /\ pc' = "idle" /\ call.fn = "alias") =>
                /\ Entries' = SelectSeq(Entries,
                                        LAMBDA e : ~SameKey(e.key, call.k))
                                  \o <<[key |-> nodes'[tail'].key,
                                        value |-> last'.text]>>
                /\ SameKey(nodes'[tail'].key, call.k)
          /\ (pc = "idle" /\ last'.op = "unalias"
                /\ last'.status = EXIT_SUCCESS) =>
                Entries' = WithoutFirst(Entries, last'.k)
          /\ (pc = "idle" /\ last'.op = "printaliases") =>
                last'.entries = Entries
          /\ (pc = "idle" /\ last'.op = "get_all_alias_keys"
                /\ last'.status = "keys") =>
                last'.keys = [i \in 1..Len(Entries) |-> Entries[i].key]]_vars

\* C20: nb_aliases is the number of struct alias records reachable from
\* head, all of them allocated; head is NULL exactly when tail is NULL; when
\* the list is not empty tail is its last record and tail->next is NULL; so
\* get_all_alias_keys fills exactly the nb_aliases slots it allocates.
C20_ListShape ==
    LET l == List(nodes, head)
    IN  /\ nb_aliases = Len(l)
        /\ \A i \in 1..Len(l) : nodes[l[i]].used
        /\ (head = NULL) = (tail = NULL)
        /\ head # NULL => (l[Len(l)] = tail /\ nodes[tail].next = NULL)
        /\ (last.op = "get_all_alias_keys" /\ last.status = "keys") =>
              Len(last.keys) = nb_aliases

\* the last of two aliases has been removed: tail is the first one again
C20_Witness ==
    /\ last.op = "unalias"
    /\ last.status = EXIT_SUCCESS
    /\ ndefs = 2
    /\ nb_aliases = 1
    /\ head = 1
    /\ tail = 1
    /\ ~nodes[2].used

====
